---- MODULE Spec2Model ----
(***************************************************************************)
(* One press of the "Generate Emotion Heatmap" button in main() of         *)
(* src/main.py: URL validation, download, segmentation, the scoring loop,  *)
(* the pandas DataFrame built from the loop's records, the summary         *)
(* (mean / idxmax), the published outputs, the CSV export and the cleanup  *)
(* of the audio file, all inside one try/except.                           *)
(*                                                                         *)
(* Scores are integers in thousandths (0.5 is 500, 1.0 is 1000), so the    *)
(* tolerance 1e-3 is one unit.  A python dict is a sequence of             *)
(* [label, value] pairs in insertion order.  A DataFrame cell is <<v>> for *)
(* the number v and <<>> for NaN.  Means are compared as exact fractions.  *)
(***************************************************************************)
EXTENDS Integers, Sequences, FiniteSets, TLC

VARIABLES pc, segment_duration, audio_file, segments, scorer_calls,
          emotion_results, df, summary, published, csv_data, errors, failed_at

vars == <<pc, segment_duration, audio_file, segments, scorer_calls,
          emotion_results, df, summary, published, csv_data, errors, failed_at>>

\* ------------------------------------------------------------------ bounds
MaxSegments == 3

\* ------------------------------------------------- inputs and collaborators
\* The slider's minimum, default and maximum (seconds).
Durations == {10, 30, 60}

\* Texts a segment may carry (the empty window included).
Texts == {"", "great news"}

\* The emotion vocabulary, in lexicographic order.
LabelOrder == <<"anger", "fear", "joy">>

\* What analyze_emotions may return: dicts in the key order of the response.
ScorerResponses ==
    { << [label |-> "joy",   value |-> 500], [label |-> "anger", value |-> 500] >>,
      << [label |-> "anger", value |-> 500], [label |-> "joy",   value |-> 500] >>,
      << [label |-> "joy",   value |-> 200], [label |-> "anger", value |-> 200] >>,
      << [label |-> "joy",   value |-> 600], [label |-> "fear",  value |-> 400] >>,
      << [label |-> "fear",  value |-> 300], [label |-> "joy",   value |-> 700] >> }

\* extract_speech_segments: n consecutive windows, window k starting at
\* k * segment_duration, each with some text.
SegmentLists(d) ==
    UNION { { [k \in 1..n |-> [timestamp |-> (k - 1) * d, text |-> t[k]]] :
              t \in [1..n -> Texts] } : n \in 0..MaxSegments }

\* ------------------------------------------------------------ python / pandas
NaN == <<>>

Range(s) == { s[k] : k \in 1..Len(s) }

Keys(emotions) == { emotions[k].label : k \in 1..Len(emotions) }

Lookup(emotions, l) ==
    LET k == CHOOSE j \in 1..Len(emotions) : emotions[j].label = l
    IN  emotions[k].value

\* {'timestamp': ..., 'text': ..., **emotions}
MakeRecord(segment, emotions) ==
    [timestamp |-> segment.timestamp, text |-> segment.text, emotions |-> emotions]

\* A loop that pushes each record to the front of the list.
AppendResultFront(results, segment, emotions) ==
    <<MakeRecord(segment, emotions)>> \o results

\* emotion_results.append(record)
AppendResult(results, segment, emotions) ==
    Append(results, MakeRecord(segment, emotions))

\* Keys of one dict that are not yet columns, appended in the dict's order.
RECURSIVE AddKeys(_, _)
AddKeys(cols, emotions) ==
    IF emotions = <<>> THEN cols
    ELSE LET l == Head(emotions).label
         IN  AddKeys(IF l \in Range(cols) THEN cols ELSE Append(cols, l),
                     Tail(emotions))

\* Column labels of pd.DataFrame(list of dicts): first-seen order over the rows.
RECURSIVE FirstSeen(_, _)
FirstSeen(cols, results) ==
    IF results = <<>> THEN cols
    ELSE FirstSeen(AddKeys(cols, Head(results).emotions), Tail(results))

Columns(results) ==
    IF results = <<>> THEN <<>>
    ELSE <<"timestamp", "text">> \o FirstSeen(<<>>, results)

\* A cell of the frame: the dict's value, NaN where the dict lacks the key.
Cell(rec, l) ==
    IF l \in Keys(rec.emotions) THEN <<Lookup(rec.emotions, l)>> ELSE NaN

\* pd.DataFrame(emotion_results)
DataFrame(results) ==
    LET cols == Columns(results)
        labs == Range(FirstSeen(<<>>, results))
    IN  [columns |-> cols,
         rows    |-> [k \in 1..Len(results) |->
                        [timestamp |-> results[k].timestamp,
                         text      |-> results[k].text,
                         cells     |-> [l \in labs |-> Cell(results[k], l)]]]]

EmptyFrame == [columns |-> <<>>, rows |-> <<>>]

\* [col for col in df.columns if col not in ['timestamp', 'text']]
EmotionCols(frame) ==
    SelectSeq(frame.columns, LAMBDA c : c \notin {"timestamp", "text"})

RECURSIVE SumCells(_, _, _)
SumCells(frame, l, k) ==
    IF k = 0 THEN 0
    ELSE SumCells(frame, l, k - 1) +
         (IF frame.rows[k].cells[l] = NaN THEN 0 ELSE frame.rows[k].cells[l][1])

CountCells(frame, l) ==
    Cardinality({ k \in 1..Len(frame.rows) : frame.rows[k].cells[l] # NaN })

\* df[emotion_cols].mean(): per column, over the non-NaN cells (skipna).
Mean(frame, l) == [num |-> SumCells(frame, l, Len(frame.rows)),
                   den |-> CountCells(frame, l)]

MeanLess(a, b) == a.num * b.den < b.num * a.den

\* Series.idxmax(): the first label, in column order, holding the maximum.
IdxMax(frame) ==
    LET cols == EmotionCols(frame)
        best == { j \in 1..Len(cols) :
                    \A k \in 1..Len(cols) :
                        ~MeanLess(Mean(frame, cols[j]), Mean(frame, cols[k])) }
        first == CHOOSE j \in best : \A k \in best : j <= k
    IN  cols[first]

\* df.to_csv(index=False): the header is the frame's columns, one line per
\* row, the fields in column order, NaN written as the empty field.
CsvField(row, c) ==
    IF c = "timestamp" THEN <<row.timestamp>>
    ELSE IF c = "text" THEN <<row.text>>
    ELSE row.cells[c]

ToCsv(frame) ==
    [header |-> frame.columns,
     rows   |-> [k \in 1..Len(frame.rows) |->
                   [j \in 1..Len(frame.columns) |->
                      CsvField(frame.rows[k], frame.columns[j])]]]

\* A cleanup that tests for the file and leaves it in place.
RemoveAudioSkipped(state) == state

\* os.remove(audio_path) when os.path.exists(audio_path)
RemoveAudio(state) == IF state = "present" THEN "removed" ELSE state

\* ------------------------------------------------------------------- state
Init ==
    /\ pc = "idle"
    /\ segment_duration \in Durations
    /\ audio_file = "absent"
    /\ segments = <<>>
    /\ scorer_calls = <<>>
    /\ emotion_results = <<>>
    /\ df = EmptyFrame
    /\ summary = <<>>
    /\ published = {}
    /\ csv_data = <<>>
    /\ errors = <<>>
    /\ failed_at = ""

\* The button pressed with an empty or invalid URL.
ClickInvalid ==
    /\ pc = "idle"
    /\ pc' = "returned"
    /\ errors' = Append(errors, "Please enter a valid YouTube URL")
    /\ UNCHANGED <<segment_duration, audio_file, segments, scorer_calls,
                   emotion_results, df, summary, published, csv_data, failed_at>>

\* The button pressed with a valid URL: the try block is entered.
ClickValid ==
    /\ pc = "idle"
    /\ pc' = "download"
    /\ UNCHANGED <<segment_duration, audio_file, segments, scorer_calls,
                   emotion_results, df, summary, published, csv_data, errors,
                   failed_at>>

\* process_video returns the audio path and the video information.
ProcessVideo ==
    /\ pc = "download"
    /\ audio_file' = "present"
    /\ published' = published \cup {"video_info"}
    /\ pc' = "extract"
    /\ UNCHANGED <<segment_duration, segments, scorer_calls, emotion_results,
                   df, summary, csv_data, errors, failed_at>>

\* extract_speech_segments, then the empty result list and the progress bar.
ExtractSegments ==
    /\ pc = "extract"
    /\ \E s \in SegmentLists(segment_duration) : segments' = s
    /\ emotion_results' = <<>>
    /\ pc' = "score"
    /\ UNCHANGED <<segment_duration, audio_file, scorer_calls, df, summary,
                   published, csv_data, errors, failed_at>>

\* One iteration of the loop: score the next segment and append its record.
AnalyzeSegment ==
    /\ pc = "score"
    /\ Len(emotion_results) < Len(segments)
    /\ LET segment == segments[Len(emotion_results) + 1]
       IN  \E emotions \in ScorerResponses :
             /\ scorer_calls' = Append(scorer_calls,
                                  [text |-> segment.text, returned |-> emotions])
             /\ emotion_results' = AppendResult(emotion_results, segment, emotions)
    /\ UNCHANGED <<pc, segment_duration, audio_file, segments, df, summary,
                   published, csv_data, errors, failed_at>>

\* The loop is over: df = pd.DataFrame(emotion_results).
CreateDataFrame ==
    /\ pc = "score"
    /\ Len(emotion_results) = Len(segments)
    /\ df' = DataFrame(emotion_results)
    /\ pc' = "heatmap"
    /\ UNCHANGED <<segment_duration, audio_file, segments, scorer_calls,
                   emotion_results, summary, published, csv_data, errors,
                   failed_at>>

\* fig = heatmap_generator.create_heatmap(df, title)
CreateHeatmap ==
    /\ pc = "heatmap"
    /\ pc' = "summary"
    /\ UNCHANGED <<segment_duration, audio_file, segments, scorer_calls,
                   emotion_results, df, summary, published, csv_data, errors,
                   failed_at>>

\* except Exception as e: the two st.error lines.
Handler(step) ==
    /\ pc' = "error"
    /\ failed_at' = step
    /\ errors' = errors \o <<"An error occurred", "Please check the YouTube URL and try again.">>

\* The summary column: idxmax of an empty Series raises ValueError.
DisplaySummary ==
    /\ pc = "summary"
    /\ IF EmotionCols(df) = <<>>
       THEN /\ Handler("summary")
            /\ UNCHANGED <<summary, published>>
       ELSE /\ summary' = <<[dominant_emotion |-> IdxMax(df),
                             segment_count    |-> Len(segments)]>>
            /\ published' = published \cup {"summary"}
            /\ pc' = "plot"
            /\ UNCHANGED <<errors, failed_at>>
    /\ UNCHANGED <<segment_duration, audio_file, segments, scorer_calls,
                   emotion_results, df, csv_data>>

\* st.pyplot(fig)
DisplayHeatmap ==
    /\ pc = "plot"
    /\ published' = published \cup {"heatmap"}
    /\ pc' = "timeline"
    /\ UNCHANGED <<segment_duration, audio_file, segments, scorer_calls,
                   emotion_results, df, summary, csv_data, errors, failed_at>>

\* create_timeline(df) and st.pyplot(timeline_fig)
DisplayTimeline ==
    /\ pc = "timeline"
    /\ published' = published \cup {"timeline"}
    /\ pc' = "table"
    /\ UNCHANGED <<segment_duration, audio_file, segments, scorer_calls,
                   emotion_results, df, summary, csv_data, errors, failed_at>>

\* st.dataframe(df)
DisplayTable ==
    /\ pc = "table"
    /\ published' = published \cup {"table"}
    /\ pc' = "csv"
    /\ UNCHANGED <<segment_duration, audio_file, segments, scorer_calls,
                   emotion_results, df, summary, csv_data, errors, failed_at>>

\* csv_data = df.to_csv(index=False) and its download button
ExportCsv ==
    /\ pc = "csv"
    /\ csv_data' = <<ToCsv(df)>>
    /\ published' = published \cup {"csv_button"}
    /\ pc' = "image"
    /\ UNCHANGED <<segment_duration, audio_file, segments, scorer_calls,
                   emotion_results, df, summary, errors, failed_at>>

\* fig.savefig to a temporary file and its download button
SaveImage ==
    /\ pc = "image"
    /\ published' = published \cup {"png_button"}
    /\ pc' = "cleanup"
    /\ UNCHANGED <<segment_duration, audio_file, segments, scorer_calls,
                   emotion_results, df, summary, csv_data, errors, failed_at>>

\* if os.path.exists(audio_path): os.remove(audio_path); the try block ends.
Cleanup ==
    /\ pc = "cleanup"
    /\ audio_file' = RemoveAudio(audio_file)
    /\ pc' = "done"
    /\ UNCHANGED <<segment_duration, segments, scorer_calls, emotion_results,
                   df, summary, published, csv_data, errors, failed_at>>

\* The steps of the try block that call a collaborator or do I/O.
RaisingSteps == {"download", "extract", "score", "heatmap", "timeline",
                 "csv", "image", "cleanup"}

\* Such a step raises: control goes to the handler, nothing else changes.
Raise ==
    /\ pc \in RaisingSteps
    /\ pc = "score" => Len(emotion_results) < Len(segments)
    /\ Handler(pc)
    /\ UNCHANGED <<segment_duration, audio_file, segments, scorer_calls,
                   emotion_results, df, summary, published, csv_data>>

Next ==
    \/ ClickInvalid
    \/ ClickValid
    \/ ProcessVideo
    \/ ExtractSegments
    \/ AnalyzeSegment
    \/ CreateDataFrame
    \/ CreateHeatmap
    \/ DisplaySummary
    \/ DisplayHeatmap
    \/ DisplayTimeline
    \/ DisplayTable
    \/ ExportCsv
    \/ SaveImage
    \/ Cleanup
    \/ Raise

Spec == Init /\ [][Next]_vars

\* ------------------------------------------------------- claim vocabulary
\* The steps at which df has been built (the handler keeps what was built).
AfterFrame == {"heatmap", "summary", "plot", "timeline", "table", "csv",
               "image", "cleanup", "done"}

FrameBuilt ==
    \/ pc \in AfterFrame
    \/ pc = "error" /\ failed_at \in AfterFrame

SegmentsReady ==
    \/ pc \in AfterFrame \cup {"score"}
    \/ pc = "error" /\ failed_at \in AfterFrame \cup {"score"}

AllOutputs == {"summary", "heatmap", "timeline", "table", "csv_button",
               "png_button"}

LexRank(l) == CHOOSE k \in 1..Len(LabelOrder) : LabelOrder[k] = l

LexSmallest(S) == CHOOSE l \in S : \A m \in S : LexRank(l) <= LexRank(m)

SortedLabels(S) == SelectSeq(LabelOrder, LAMBDA l : l \in S)

UnionLabels == UNION { Keys(emotion_results[k].emotions) :
                       k \in 1..Len(emotion_results) }

FrameLabels == Range(EmotionCols(df))

TiedMax ==
    { l \in FrameLabels :
        \A m \in FrameLabels : ~MeanLess(Mean(df, l), Mean(df, m)) }

RECURSIVE SumSeq(_)
SumSeq(s) == IF s = <<>> THEN 0 ELSE Head(s) + SumSeq(Tail(s))

RowSum(k) ==
    SumSeq([j \in 1..Len(EmotionCols(df)) |->
              LET c == df.rows[k].cells[EmotionCols(df)[j]]
              IN  IF c = NaN THEN 0 ELSE c[1]])

\* ------------------------------------------------------------------ claims
\* C1: with n >= 1 segments, a failing scorer call does not abort the run:
\* no error is reported and the run does not enter the error state.
C1_ScoringFailureIsolated ==
    (Len(segments) >= 1 /\ failed_at = "score") =>
        (pc # "error" /\ errors = <<>>)

\* C2: no reachable state has both a published table (raw data view or CSV
\* export) and a reported failure.
C2_AllOrNothing ==
    ~(errors # <<>> /\ published \cap {"table", "csv_button"} # {})

\* C3: with zero segments the summary step does not raise; the summary has
\* dominant_emotion None and segment_count 0 over the empty frame.
C3_ZeroSegmentsSummary ==
    (SegmentsReady /\ Len(segments) = 0) =>
        /\ failed_at # "summary"
        /\ FrameBuilt => df = EmptyFrame
        /\ pc \in AfterFrame \ {"heatmap", "summary"} =>
              summary = <<[dominant_emotion |-> "None", segment_count |-> 0]>>

\* C4: when two or more labels share the maximum per-label mean, the
\* dominant emotion is the lexicographically smallest of them.
C4_TieBreakLexicographic ==
    (summary # <<>> /\ Cardinality(TiedMax) >= 2) =>
        summary[1].dominant_emotion = LexSmallest(TiedMax)

\* C5: the table's emotion columns are the union of all distributions'
\* labels in lexicographically sorted order.
C5_ColumnsSorted ==
    FrameBuilt => EmotionCols(df) = SortedLabels(UnionLabels)

\* C6: a cell whose segment lacks the label holds 0.0, not a missing value,
\* so that every per-label mean is taken over all n rows.
C6_MissingFilledZero ==
    FrameBuilt =>
        \A k \in 1..Len(df.rows) : \A l \in FrameLabels :
            /\ l \notin Keys(emotion_results[k].emotions) =>
                  df.rows[k].cells[l] = <<0>>
            /\ Mean(df, l).den = Len(df.rows)

\* C7: every row of per-label values handed to the heatmap and the summary
\* is all-zero or sums to 1 within 1e-3.
C7_RowsNormalised ==
    FrameBuilt =>
        \A k \in 1..Len(df.rows) :
            \/ RowSum(k) = 0
            \/ (RowSum(k) - 1000 < 1 /\ 1000 - RowSum(k) < 1)

\* C8: the CSV export has the header index, timestamp, text and then the
\* labels in canonical order, and n data rows, row k carrying index k.
C8_CsvLayout ==
    csv_data # <<>> =>
        /\ csv_data[1].header =
              <<"index", "timestamp", "text">> \o SortedLabels(UnionLabels)
        /\ Len(csv_data[1].rows) = Len(segments)
        /\ \A k \in 1..Len(csv_data[1].rows) : csv_data[1].rows[k][1] = <<k - 1>>

\* C9: when every scorer call succeeds the scorer is called once per segment,
\* in segment order, and row k of the table carries segment k's timestamp and
\* text with exactly the distribution returned for that segment's text.
C9_RecordsFollowSegments ==
    FrameBuilt =>
        /\ Len(scorer_calls) = Len(segments)
        /\ Len(df.rows) = Len(segments)
        /\ \A k \in 1..Len(segments) :
              /\ scorer_calls[k].text = segments[k].text
              /\ df.rows[k].timestamp = segments[k].timestamp
              /\ df.rows[k].text = segments[k].text
              /\ Keys(scorer_calls[k].returned) \subseteq DOMAIN df.rows[k].cells
              /\ \A l \in DOMAIN df.rows[k].cells :
                    df.rows[k].cells[l] =
                        IF l \in Keys(scorer_calls[k].returned)
                        THEN <<Lookup(scorer_calls[k].returned, l)>>
                        ELSE NaN

C9_Witness ==
    /\ FrameBuilt
    /\ Len(segments) >= 2
    /\ segments[1].text # segments[2].text
    /\ scorer_calls[1].returned # scorer_calls[2].returned

\* C10: the audio file is removed exactly when the run ends without an
\* exception, and then every output has been produced; a run that fails
\* after the download ends in the error state with the file still present.
C10_AudioRemovedOnlyAtEnd ==
    /\ (audio_file = "removed") <=> (pc = "done")
    /\ pc = "done" => (AllOutputs \subseteq published /\ errors = <<>>)
    /\ (pc = "error" /\ failed_at # "download") => audio_file = "present"

C10_Witness ==
    /\ pc = "done"
    /\ audio_file = "removed"
    /\ AllOutputs \subseteq published

====
